---- MODULE Spec2Model ----
(***************************************************************************)
(* Model of the docker_image element plugin                                *)
(* (src/bst_plugins_container/elements/docker_image.py).                   *)
(*                                                                         *)
(* DockerElement.assemble is modelled statement by statement: the          *)
(* generator _stage_layers interleaved with _create_layer, the recursion   *)
(* of _stage_layer as an explicit call stack, and every file-system        *)
(* effect on the three areas dependencies/, layers/ and image/.            *)
(*                                                                         *)
(* Representation of the file system:                                      *)
(*   - a directory of staged files is a set of directory entries, one per  *)
(*     name;                                                               *)
(*   - an optional file or value is a sequence of length 0 (absent) or 1;  *)
(*   - a file that was opened for writing but not written to its end has   *)
(*     whole = FALSE (its content is some truncation of body);             *)
(*   - a SHA-256 hex digest is the record [sha256 |-> bytes]: two digests  *)
(*     are equal exactly when the hashed bytes are (no collisions).        *)
(***************************************************************************)
EXTENDS Integers, Sequences, FiniteSets, TLC

\* ------------------------------------------------------------------ bounds
MaxBuildDeps == 2      \* direct build dependencies of the docker_image element

\* the Elements of the dependency graph: three are enough for a chain, a fork,
\* a diamond and two build dependencies that share a third Element
Elements == {1, 2, 3}
\* the paths an artifact can hold, and the bytes of a file in the archive check
Paths == {"x", "y"}

\* --------------------------------------------------------------- constants
\* buildstream.utils._magic_timestamp, the mtime BuildStream gives every file
magic_timestamp == 1321009871
LAYER_CONFIG_VERSION == "1.0"

VARIABLES
    \* inputs handed over by BuildStream
    build_deps,        \* self.dependencies(Scope.BUILD, recurse=False), in declared order
    rdeps,             \* the direct runtime dependencies of every Element, in order
    artifact,          \* the file diff every Element contributes
    image_names_node,  \* the 'image-names' list of the element's configuration
    image_names,       \* self._image_names: the dict repository -> tag
    exposed_ports_node,\* the 'exposed-ports' list of the element's configuration
    exposed_ports,     \* self._exposed_ports: the dict port -> {}
    \* outcome of preflight
    preflight_error,   \* the error preflight raised (optional)
    \* control state of assemble
    pc,                \* the statement assemble is at
    raised,            \* an exception was raised at pc and left assemble
    layer_index,       \* how many build dependencies _stage_layers has taken
    visited,           \* _stage_layers: the set `visited`
    stack,             \* call stack of _stage_layer
    layer_digests,     \* assemble: the list layer_digests built so far
    hash_digest,       \* _create_layer: the local hash_digest (optional)
    image_digest,      \* _create_image_config: the local image_digest (optional)
    \* file system
    dep_dir,           \* dependencies/: the staging directory of every layer so far
    tmp,               \* layers/tmp: the scratch path
    layer_dir,         \* layers/<digest>/: the digest-named layer directories
    config_files,      \* layers/<digest>.json
    repositories,      \* layers/repositories (optional)
    manifest,          \* layers/manifest.json (optional)
    image_tar,         \* image/image.tar (optional)
    \* record of the calls made to the collaborator
    staged,            \* the stage_dependency_artifacts calls made: <<Element, layer>>
    \* two change-set directories given to the archive builder on its own
    changeset_a, changeset_b, digest_a, digest_b,
    \* the two elements that build them, and the json each writes for its layer
    element_a, element_b, json_a, json_b

vars == <<build_deps, rdeps, artifact, image_names_node, image_names,
          exposed_ports_node, exposed_ports, preflight_error, pc, raised,
          layer_index, visited, stack,
          layer_digests, hash_digest, image_digest, dep_dir, tmp, layer_dir,
          config_files, repositories, manifest, image_tar, staged,
          changeset_a, changeset_b, digest_a, digest_b,
          element_a, element_b, json_a, json_b>>

inputs == <<build_deps, rdeps, artifact, image_names_node, image_names,
            exposed_ports_node, exposed_ports>>
tar_vars == <<changeset_a, changeset_b, digest_a, digest_b,
              element_a, element_b, json_a, json_b>>

\* ----------------------------------------------------------------- helpers
Range(s) == {s[i] : i \in 1..Len(s)}

\* the sequences over S without repetition, of length at most n
RECURSIVE DistinctSeqs(_, _)
DistinctSeqs(S, n) ==
    IF n = 0 THEN {<<>>}
    ELSE LET shorter == DistinctSeqs(S, n - 1)
         IN shorter \cup UNION {{Append(s, x) : x \in S \ Range(s)} :
                                  s \in {t \in shorter : Len(t) = n - 1}}

\* every order in which os.listdir can return the entries of a directory
Listings(dir) == {s \in DistinctSeqs(dir, Cardinality(dir)) : Len(s) = Cardinality(dir)}

Names(dir) == {e.name : e \in dir}

None == <<>>
Some(x) == <<x>>

\* ----------------------------------------------------------------- strings
\* a str of the configuration is the sequence of its characters
Digits == <<"0", "1", "2", "3", "4", "5", "6", "7", "8", "9">>

\* c in s, for a character c
contains(s, c) == \E i \in 1..Len(s) : s[i] = c

\* s.split(sep, 1): the whole of s when sep is not in it, else what is before
\* and what is after the first sep
split(s, sep) ==
    IF ~contains(s, sep) THEN <<s>>
    ELSE LET at == CHOOSE i \in 1..Len(s) : s[i] = sep /\ \A j \in 1..(i - 1) : s[j] /= sep
         IN <<SubSeq(s, 1, at - 1), SubSeq(s, at + 1, Len(s))>>

\* the strings int() takes: an optional sign and one decimal digit or more (of
\* the characters used here; int() raises ValueError on any other)
is_int_literal(s) ==
    LET digits == IF s /= <<>> /\ s[1] \in {"-", "+"} THEN Tail(s) ELSE s
    IN /\ digits /= <<>>
       /\ \A i \in 1..Len(digits) : digits[i] \in Range(Digits)

RECURSIVE decimal(_)
decimal(digits) ==
    IF digits = <<>> THEN 0
    ELSE 10 * decimal(SubSeq(digits, 1, Len(digits) - 1))
         + (CHOOSE v \in 0..9 : Digits[v + 1] = digits[Len(digits)])

\* int(s), for a string int() takes
int(s) ==
    IF s[1] = "-" THEN 0 - decimal(Tail(s))
    ELSE IF s[1] = "+" THEN decimal(Tail(s))
    ELSE decimal(s)

\* ------------------------------------------------- the collaborator's side
\* ownership and modification time a file has on disk
\* what the files BuildStream stages inside the sandbox carry
SandboxStat == [mtime |-> magic_timestamp, uid |-> 0, gid |-> 0,
                uname |-> "root", gname |-> "root"]

\* ownership and modification time a file can have on disk: those of the sandbox,
\* or one of them different
Stats == {SandboxStat,
          [SandboxStat EXCEPT !.mtime = 0],
          [SandboxStat EXCEPT !.uid = 1000],
          [SandboxStat EXCEPT !.gid = 1000],
          [SandboxStat EXCEPT !.uname = "user"],
          [SandboxStat EXCEPT !.gname = "user"]}

\* Element.dependencies(Scope.RUN): every Element needed to run e, dependencies
\* first (depth-first post-order, each once), e itself last; the generator marks
\* an Element when it comes to it, before it descends into its dependencies
RECURSIVE Walk(_, _, _)
Walk(graph, todo, acc) ==
    IF todo = <<>> THEN acc
    ELSE LET e == Head(todo)
         IN IF e \in acc.marked
            THEN Walk(graph, Tail(todo), acc)
            ELSE LET below == Walk(graph, graph[e],
                                   [marked |-> acc.marked \cup {e}, yielded |-> acc.yielded])
                 IN Walk(graph, Tail(todo),
                         [marked |-> below.marked, yielded |-> Append(below.yielded, e)])

dependencies(e) == Walk(rdeps, <<e>>, [marked |-> {}, yielded |-> <<>>]).yielded

\* Element.stage_dependency_artifacts(sandbox, Scope.NONE, path): the files of the
\* Element's own artifact are written into the directory, replacing what is there
stage_keeping_existing_files(dir, e) ==
    LET new == {[name |-> f.name, data |-> f.data, stat |-> SandboxStat] : f \in artifact[e]}
    IN dir \cup {f \in new : f.name \notin Names(dir)}

stage_dependency_artifacts(dir, e) ==
    LET new == {[name |-> f.name, data |-> f.data, stat |-> SandboxStat] : f \in artifact[e]}
    IN {f \in dir : f.name \notin Names(new)} \cup new

\* -------------------------------------------------------- archive and hash
\* tarfile.TarFile.add: the header tarfile derives from the entry on disk
gettarinfo(entry) ==
    [name |-> entry.name, data |-> entry.data, mtime |-> entry.stat.mtime,
     uid |-> entry.stat.uid, gid |-> entry.stat.gid,
     uname |-> entry.stat.uname, gname |-> entry.stat.gname]

set_tar_headers(tarinfo) ==
    [tarinfo EXCEPT !.uname = "buildstream", !.gname = "buildstream",
                    !.mtime = magic_timestamp]

\* the members written to layer.tar for the listing os.listdir returned
tar_members(listing) ==
    [i \in 1..Len(listing) |-> set_tar_headers(gettarinfo(listing[i]))]

_hash_digest(bytes) == [sha256 |-> bytes]

\* ------------------------------------------------------- metadata records
created == "created"                              \* self._created
author == "BuildStream docker_image plugin"      \* self._author

\* "sha256:{}".format(layer_digest)
diff_id(layer_digest) == [prefix |-> "sha256:", digest |-> layer_digest]
\* "{}/layer.tar".format(layer_digest)
layer_tar_path(layer_digest) == [digest |-> layer_digest, path |-> "/layer.tar"]
\* "{}.json".format(config_digest)
config_file_name(config_digest) == [digest |-> config_digest, ext |-> ".json"]

\* the dict _create_image_config serializes
image_config_body(digests) ==
    [created |-> created,
     author |-> author,
     config |-> [ExposedPorts |-> exposed_ports,
                 others |-> "Env Entrypoint Cmd Volumes WorkingDir HealthCheck"],
     rootfs |-> [diff_ids |-> [i \in 1..Len(digests) |-> diff_id(digests[i])],
                 type |-> "layers"],
     history |-> [i \in 1..Len(digests) |->
                     [created |-> created,
                      created_by |-> "BuildStream Docker Image Plugin"]]]

\* the dict _create_repositories_file serializes: name -> "tag:top_layer_digest"
repositories_body(top_layer_digest) ==
    [i \in 1..Len(image_names) |->
        [name |-> image_names[i].repo,
         value |-> [tag |-> image_names[i].tag, digest |-> top_layer_digest]]]

\* the list _create_manifest serializes (its single entry)
manifest_body_top_first(digests, config_digest) ==
    [Config |-> config_file_name(config_digest),
     Layers |-> [i \in 1..Len(digests) |-> layer_tar_path(digests[Len(digests) + 1 - i])],
     RepoTags |-> [i \in 1..Len(image_names) |->
                     image_names[i].repo \o <<":">> \o image_names[i].tag]]

manifest_body(digests, config_digest) ==
    [Config |-> config_file_name(config_digest),
     Layers |-> [i \in 1..Len(digests) |-> layer_tar_path(digests[i])],
     RepoTags |-> [i \in 1..Len(image_names) |->
                     image_names[i].repo \o <<":">> \o image_names[i].tag]]

\* the attributes of self that _create_layer reads
self == [created |-> created, exposed_ports |-> exposed_ports]

\* the dict _create_layer serializes into <digest>/json
v1_json_of(element, digest) ==
    [id |-> digest,
     created |-> element.created,
     author |-> author,
     checksum |-> [prefix |-> "tarsum.v1+sha256:", digest |-> digest],
     config |-> [ExposedPorts |-> element.exposed_ports,
                 others |-> "Env EntryPoint Cmd Volumes WorkingDir"]]

v1_json(digest) == v1_json_of(self, digest)

\* assemble, line 173: the digest handed over as top_layer_digest
top_layer_argument(digests) == digests[1]

\* configure, line 94: dict([repo.split(':', 1) for repo in image_names]); a dict
\* keeps one value per key (the last one given) at the key's first position
RECURSIVE dict(_, _)
dict(pairs, acc) ==
    IF pairs = <<>> THEN acc
    ELSE LET p == Head(pairs)
             at == {i \in 1..Len(acc) : acc[i].repo = p.repo}
         IN dict(Tail(pairs),
                 IF at = {} THEN Append(acc, p)
                 ELSE [i \in 1..Len(acc) |-> IF i \in at THEN p ELSE acc[i]])

\* configure, line 94: the [repository, tag] pairs the image names split into
repo_tag_pairs(names) ==
    [i \in 1..Len(names) |->
        LET parts == split(names[i], ":") IN [repo |-> parts[1], tag |-> parts[2]]]

\* configure, line 94 raises ValueError on an image name without ':': dict() takes
\* pairs only
configurable(names) == \A i \in 1..Len(names) : contains(names[i], ":")

\* configure, line 92: {port: {} for port in ports}; every value is {}, and a port
\* given twice is one key, at its first position
RECURSIVE ports_dict(_, _)
ports_dict(ports, acc) ==
    IF ports = <<>> THEN acc
    ELSE ports_dict(Tail(ports),
                    IF Head(ports) \in Range(acc) THEN acc ELSE Append(acc, Head(ports)))

\* ------------------------------------------------ preflight, lines 100-130
ElementError(reason) == [type |-> "ElementError", reason |-> reason]
ValueError == [type |-> "ValueError", reason |-> "invalid literal for int()"]

port_options == {<<"t", "c", "p">>, <<"u", "d", "p">>}

\* line 110: int(port) > 65535 or int(port) < 0
out_of_range_excluding_65535(p) == p >= 65535 \/ p < 0
out_of_range(p) == p > 65535 \/ p < 0

\* lines 104-113: what one iteration of the loop raises (optional)
check_port(entry) ==
    LET parts == split(entry, "/")
        port == parts[1]
    IN IF Len(parts) = 2 /\ parts[2] \notin port_options
       THEN Some(ElementError("docker-invalid-port-option"))
       ELSE IF ~is_int_literal(port) THEN Some(ValueError)
       ELSE IF out_of_range(int(port))
            THEN Some(ElementError("docker-port-out-out-of-range"))
            ELSE None

\* line 118: len(build_deps) < 1
no_build_dependency_is_enough(n) == n < 0
too_few_build_dependencies(n) == n < 1

\* line 125: the characters of [a-z0-9] and of [._/-]
AlNum == {"a", "b", "c", "d", "e", "f", "g", "h", "i", "j", "k", "l", "m", "n", "o",
          "p", "q", "r", "s", "t", "u", "v", "w", "x", "y", "z"} \cup Range(Digits)
Separators == {".", "_", "/", "-"}

\* s is ([a-z0-9][._/-]?)+
RECURSIVE components(_)
components(s) ==
    /\ s /= <<>>
    /\ s[1] \in AlNum
    /\ LET rest == Tail(s)
       IN \/ rest = <<>>
          \/ components(rest)
          \/ /\ rest[1] \in Separators
             /\ Tail(rest) = <<>> \/ components(Tail(rest))

\* lines 125-127: re.fullmatch(repository_syntax, image_name)
repository_syntax(image_name) ==
    \/ components(image_name)
    \/ \E i \in 1..Len(image_name) :
          /\ image_name[i] = ":"
          /\ components(SubSeq(image_name, 1, i - 1))
          /\ components(SubSeq(image_name, i + 1, Len(image_name)))

\* the first error a loop of checks raises (optional)
RECURSIVE first_error(_)
first_error(errors) ==
    IF errors = <<>> THEN None
    ELSE IF Head(errors) /= None THEN Head(errors) ELSE first_error(Tail(errors))

\* ------------------------------------------------------------ scratch path
NoTmp == [kind |-> "none", tar |-> None, config |-> None]
TmpDir(tar) == [kind |-> "dir", tar |-> tar, config |-> None]
TmpFile(config) == [kind |-> "file", tar |-> None, config |-> config]

\* a file holding the whole serialization of body, and the file a failed write
\* leaves behind: it exists and holds a truncated serialization of body
Whole(body) == [body |-> body, whole |-> TRUE]
Partial(body) == [body |-> body, whole |-> FALSE]

\* ------------------------------------------------------------------ inputs
\* BuildStream loads no circular dependencies: the Elements are numbered so that
\* every runtime edge leads to a higher number; the build order is free
RECURSIVE RunGraphs(_)
RunGraphs(e) ==
    IF e \notin Elements THEN {<<>>}
    ELSE LET above == {x \in Elements : x > e}
         IN {<<s>> \o g : s \in DistinctSeqs(above, Cardinality(above)),
                            g \in RunGraphs(e + 1)}

\* an Element contributes no file, or one file of its own bytes at one path
Artifacts == [Elements -> {{}} \cup {{[name |-> p, data |-> e]} : p \in Paths, e \in Elements}]

\* the image names "r1:t1" and "r2:t2"
r1_t1 == <<"r", "1", ":", "t", "1">>
r2_t2 == <<"r", "2", ":", "t", "2">>

ImageNameNodes == {<<r1_t1>>, <<r1_t1, r2_t2>>}

Init ==
    /\ rdeps \in RunGraphs(1)
    /\ build_deps \in DistinctSeqs(Elements, MaxBuildDeps) \ {<<>>}
    /\ artifact \in {a \in Artifacts : \A e \in Elements : \A f \in a[e] : f.data = e}
    /\ image_names_node \in ImageNameNodes
    /\ image_names = dict(repo_tag_pairs(image_names_node), <<>>)
    /\ exposed_ports_node = <<>>
    /\ exposed_ports = ports_dict(exposed_ports_node, <<>>)
    /\ preflight_error = None
    /\ pc = "assemble"
    /\ raised = FALSE
    /\ layer_index = 0
    /\ visited = {}
    /\ stack = <<>>
    /\ layer_digests = <<>>
    /\ hash_digest = None
    /\ image_digest = None
    /\ dep_dir = <<>>
    /\ tmp = NoTmp
    /\ layer_dir = {}
    /\ config_files = {}
    /\ repositories = None
    /\ manifest = None
    /\ image_tar = None
    /\ staged = <<>>
    /\ changeset_a = <<>>
    /\ changeset_b = <<>>
    /\ digest_a = None
    /\ digest_b = None
    /\ element_a = self
    /\ element_b = self
    /\ json_a = None
    /\ json_b = None

\* ------------------------------------------------- assemble, lines 152-169
running(at) == pc = at /\ ~raised

assemble_makedirs ==
    /\ running("assemble")
    /\ pc' = "stage_layers"
    /\ UNCHANGED <<inputs, preflight_error, raised, layer_index, visited, stack, layer_digests, hash_digest,
                   image_digest, dep_dir, tmp, layer_dir, config_files,
                   repositories, manifest, image_tar, staged, tar_vars>>

\* _stage_layers, line 189 is outside the loop: the set is kept from layer to layer
visited_reset_for_each_layer(v) == {}
visited_for_next_layer(v) == v

\* _stage_layers, line 190: the loop ends when every build dependency was taken
stops_after_first_layer == layer_index >= 1
generator_exhausted == layer_index = Len(build_deps)

\* _stage_layers, lines 190-199: the next build dependency, its empty staging
\* directory and the call _stage_layer(sandbox, relative_path, dependency, visited)
_stage_layers_next ==
    /\ running("stage_layers")
    /\ ~generator_exhausted
    /\ layer_index' = layer_index + 1
    /\ dep_dir' = Append(dep_dir, {})
    /\ visited' = visited_for_next_layer(visited)
    /\ stack' = <<[element |-> build_deps[layer_index + 1], next |-> 0]>>
    /\ pc' = "stage_layer"
    /\ UNCHANGED <<inputs, preflight_error, raised, layer_digests, hash_digest, image_digest, tmp, layer_dir, config_files, repositories, manifest, image_tar,
                   staged, tar_vars>>

Top == stack[Len(stack)]
Pop == SubSeq(stack, 1, Len(stack) - 1)
Advance == [stack EXCEPT ![Len(stack)].next = @ + 1]

\* _stage_layer, line 212: visited.add(element), before the dependencies are walked
visited_left_as_it_is(v, element) == v
visited_add(v, element) == v \cup {element}

\* _stage_layer, lines 211-212
_stage_layer_enter ==
    /\ running("stage_layer")
    /\ stack /= <<>>
    /\ Top.next = 0
    /\ IF Top.element \notin visited
       THEN /\ visited' = visited_add(visited, Top.element)
            /\ stack' = Advance
       ELSE /\ stack' = Pop
            /\ UNCHANGED visited
    /\ UNCHANGED <<inputs, preflight_error, pc, raised, layer_index, layer_digests, hash_digest,
                   image_digest, dep_dir, tmp, layer_dir, config_files,
                   repositories, manifest, image_tar, staged, tar_vars>>

\* _stage_layer, lines 214-215: the recursive call for the next dependency
_stage_layer_recurse ==
    /\ running("stage_layer")
    /\ stack /= <<>>
    /\ Top.next \in 1..Len(dependencies(Top.element))
    /\ stack' = Append(Advance,
                       [element |-> dependencies(Top.element)[Top.next], next |-> 0])
    /\ UNCHANGED <<inputs, preflight_error, pc, raised, layer_index, visited, layer_digests, hash_digest,
                   image_digest, dep_dir, tmp, layer_dir, config_files,
                   repositories, manifest, image_tar, staged, tar_vars>>

\* _stage_layer, lines 214-216: the loop over the dependencies has ended
walked_no_dependency(frame) == frame.next >= 1
walked_the_dependencies(frame) == frame.next > Len(dependencies(frame.element))

\* _stage_layer, line 217: the Element's own diff goes into the layer's directory
_stage_layer_artifacts ==
    /\ running("stage_layer")
    /\ stack /= <<>>
    /\ walked_the_dependencies(Top)
    /\ dep_dir' = [dep_dir EXCEPT ![layer_index] = stage_dependency_artifacts(@, Top.element)]
    /\ staged' = Append(staged, <<Top.element, layer_index>>)
    /\ stack' = Pop
    /\ UNCHANGED <<inputs, preflight_error, pc, raised, layer_index, visited, layer_digests, hash_digest,
                   image_digest, tmp, layer_dir, config_files, repositories,
                   manifest, image_tar, tar_vars>>

\* _stage_layers, line 200: yield layer_path; assemble calls _create_layer on it
_stage_layers_yield ==
    /\ running("stage_layer")
    /\ stack = <<>>
    /\ pc' = "create_layer"
    /\ UNCHANGED <<inputs, preflight_error, raised, layer_index, visited, stack, layer_digests, hash_digest,
                   image_digest, dep_dir, tmp, layer_dir, config_files,
                   repositories, manifest, image_tar, staged, tar_vars>>

\* --------------------------------------------- _create_layer, lines 321-367
staging_dir == dep_dir[layer_index]          \* changeset_dir
the_layer(digest) == CHOOSE d \in layer_dir : d.name = digest

\* lines 323-324: os.makedirs(tmp_layer_dir, exist_ok=True)
_create_layer_makedirs ==
    /\ running("create_layer")
    /\ IF tmp.kind = "file"
       THEN /\ raised' = TRUE                       \* FileExistsError
            /\ UNCHANGED <<pc, tmp>>
       ELSE /\ tmp' = IF tmp.kind = "dir" THEN tmp ELSE TmpDir(None)
            /\ pc' = "layer_tar"
            /\ UNCHANGED raised
    /\ UNCHANGED <<inputs, preflight_error, layer_index, visited, stack, layer_digests, hash_digest,
                   image_digest, dep_dir, layer_dir, config_files,
                   repositories, manifest, image_tar, staged, tar_vars>>

\* lines 333-336: layer.tar is written in the order os.listdir returns the entries
_create_layer_tar ==
    /\ running("layer_tar")
    /\ \E listing \in Listings(staging_dir) :
          tmp' = TmpDir(Some(Whole(tar_members(listing))))
    /\ pc' = "layer_hash"
    /\ UNCHANGED <<inputs, preflight_error, raised, layer_index, visited, stack, layer_digests, hash_digest,
                   image_digest, dep_dir, layer_dir, config_files,
                   repositories, manifest, image_tar, staged, tar_vars>>

\* lines 333-336 failing after the archive was opened: a truncated layer.tar stays
_create_layer_tar_fails ==
    /\ running("layer_tar")
    /\ \E listing \in Listings(staging_dir) :
          tmp' = TmpDir(Some(Partial(tar_members(listing))))
    /\ raised' = TRUE
    /\ UNCHANGED <<inputs, preflight_error, pc, layer_index, visited, stack, layer_digests, hash_digest,
                   image_digest, dep_dir, layer_dir, config_files,
                   repositories, manifest, image_tar, staged, tar_vars>>

\* line 339
_create_layer_hash ==
    /\ running("layer_hash")
    /\ hash_digest' = Some(_hash_digest(tmp.tar[1].body))
    /\ pc' = "layer_move"
    /\ UNCHANGED <<inputs, preflight_error, raised, layer_index, visited, stack, layer_digests,
                   image_digest, dep_dir, tmp, layer_dir, config_files,
                   repositories, manifest, image_tar, staged, tar_vars>>

\* line 342: os.path.join(layer_dir, hash_digest)
layer_directory_of_empty_tar(digest) == _hash_digest(<<>>)
layer_directory(digest) == digest

\* line 343: move_atomic(tmp_layer_dir, layer_directory) renames the directory; the
\* rename fails when the destination is a directory that is not empty
_create_layer_move ==
    /\ running("layer_move")
    /\ LET dest == layer_directory(hash_digest[1])
       IN IF \E d \in layer_dir : d.name = dest
          THEN /\ raised' = TRUE                    \* DirectoryExistsError
               /\ UNCHANGED <<pc, tmp, layer_dir>>
          ELSE /\ layer_dir' = layer_dir \cup
                      {[name |-> dest, tar |-> tmp.tar, VERSION |-> None, json |-> None]}
               /\ tmp' = NoTmp
               /\ pc' = "layer_version"
               /\ UNCHANGED raised
    /\ UNCHANGED <<inputs, preflight_error, layer_index, visited, stack, layer_digests, hash_digest,
                   image_digest, dep_dir, config_files, repositories, manifest,
                   image_tar, staged, tar_vars>>

\* the layer directory _create_layer writes VERSION and json into
write_in_layer(digest, field, file) ==
    LET d == the_layer(layer_directory(digest))
    IN (layer_dir \ {d}) \cup
       {IF field = "VERSION" THEN [d EXCEPT !.VERSION = Some(file)]
                             ELSE [d EXCEPT !.json = Some(file)]}

\* lines 346-347
_create_layer_version ==
    /\ running("layer_version")
    /\ layer_dir' = write_in_layer(hash_digest[1], "VERSION", Whole(LAYER_CONFIG_VERSION))
    /\ pc' = "layer_json"
    /\ UNCHANGED <<inputs, preflight_error, raised, layer_index, visited, stack, layer_digests, hash_digest,
                   image_digest, dep_dir, tmp, config_files, repositories,
                   manifest, image_tar, staged, tar_vars>>

\* lines 346-347 failing after open(..., "w+") created the file
_create_layer_version_fails ==
    /\ running("layer_version")
    /\ layer_dir' = write_in_layer(hash_digest[1], "VERSION", Partial(LAYER_CONFIG_VERSION))
    /\ raised' = TRUE
    /\ UNCHANGED <<inputs, preflight_error, pc, layer_index, visited, stack, layer_digests, hash_digest,
                   image_digest, dep_dir, tmp, config_files, repositories,
                   manifest, image_tar, staged, tar_vars>>

\* lines 350-367: json is saved and the digest returned to assemble's list, line 168
_create_layer_json ==
    /\ running("layer_json")
    /\ layer_dir' = write_in_layer(hash_digest[1], "json", Whole(v1_json(hash_digest[1])))
    /\ layer_digests' = Append(layer_digests, hash_digest[1])
    /\ hash_digest' = None
    /\ pc' = "stage_layers"
    /\ UNCHANGED <<inputs, preflight_error, raised, layer_index, visited, stack, image_digest, dep_dir, tmp, config_files, repositories, manifest, image_tar, staged,
                   tar_vars>>

\* line 365 failing inside _save_json, after open(..., 'w+') created the file
_create_layer_json_fails ==
    /\ running("layer_json")
    /\ layer_dir' = write_in_layer(hash_digest[1], "json", Partial(v1_json(hash_digest[1])))
    /\ raised' = TRUE
    /\ UNCHANGED <<inputs, preflight_error, pc, layer_index, visited, stack, layer_digests, hash_digest,
                   image_digest, dep_dir, tmp, config_files, repositories,
                   manifest, image_tar, staged, tar_vars>>

\* _stage_layers is exhausted: assemble goes on to line 172
_stage_layers_done ==
    /\ running("stage_layers")
    /\ generator_exhausted
    /\ pc' = "image_config"
    /\ UNCHANGED <<inputs, preflight_error, raised, layer_index, visited, stack, layer_digests, hash_digest,
                   image_digest, dep_dir, tmp, layer_dir, config_files,
                   repositories, manifest, image_tar, staged, tar_vars>>

\* ------------------------------------- _create_image_config, lines 262-307
\* lines 270-299: the config is serialized to the scratch path tmp
_create_image_config_save ==
    /\ running("image_config")
    /\ IF tmp.kind = "dir"
       THEN /\ raised' = TRUE                       \* IsADirectoryError
            /\ UNCHANGED <<pc, tmp>>
       ELSE /\ tmp' = TmpFile(Some(Whole(image_config_body(layer_digests))))
            /\ pc' = "config_hash"
            /\ UNCHANGED raised
    /\ UNCHANGED <<inputs, preflight_error, layer_index, visited, stack, layer_digests, hash_digest,
                   image_digest, dep_dir, layer_dir, config_files,
                   repositories, manifest, image_tar, staged, tar_vars>>

\* line 299 failing inside _save_json, after open(..., 'w+') created the file
_create_image_config_save_fails ==
    /\ running("image_config")
    /\ tmp.kind /= "dir"
    /\ tmp' = TmpFile(Some(Partial(image_config_body(layer_digests))))
    /\ raised' = TRUE
    /\ UNCHANGED <<inputs, preflight_error, pc, layer_index, visited, stack, layer_digests, hash_digest,
                   image_digest, dep_dir, layer_dir, config_files,
                   repositories, manifest, image_tar, staged, tar_vars>>

\* lines 302-303
_create_image_config_hash ==
    /\ running("config_hash")
    /\ image_digest' = Some(_hash_digest(tmp.config[1].body))
    /\ pc' = "config_move"
    /\ UNCHANGED <<inputs, preflight_error, raised, layer_index, visited, stack, layer_digests, hash_digest,
                   dep_dir, tmp, layer_dir, config_files, repositories,
                   manifest, image_tar, staged, tar_vars>>

\* line 303: os.path.join(outputdir, '{}.json'.format(image_digest))
final_image_config(digest) == config_file_name(digest)

\* line 305: move_atomic renames tmp_image_config: nothing stays at the scratch path
tmp_image_config_copied(scratch) == scratch
tmp_image_config_moved(scratch) == NoTmp

\* line 305: move_atomic(tmp_image_config, final_image_config) renames the file,
\* replacing a file of that name
_create_image_config_move ==
    /\ running("config_move")
    /\ LET dest == final_image_config(image_digest[1])
       IN config_files' = {c \in config_files : c.name /= dest} \cup
                          {[name |-> dest, file |-> tmp.config[1]]}
    /\ tmp' = tmp_image_config_moved(tmp)
    /\ pc' = "repositories"
    /\ UNCHANGED <<inputs, preflight_error, raised, layer_index, visited, stack, layer_digests, hash_digest,
                   image_digest, dep_dir, layer_dir, repositories, manifest,
                   image_tar, staged, tar_vars>>

\* ------------------------- assemble, line 173 and _create_repositories_file
_create_repositories_file ==
    /\ running("repositories")
    /\ repositories' = Some(Whole(repositories_body(top_layer_argument(layer_digests))))
    /\ pc' = "manifest"
    /\ UNCHANGED <<inputs, preflight_error, raised, layer_index, visited, stack, layer_digests, hash_digest,
                   image_digest, dep_dir, tmp, layer_dir, config_files,
                   manifest, image_tar, staged, tar_vars>>

_create_repositories_file_fails ==
    /\ running("repositories")
    /\ repositories' = Some(Partial(repositories_body(top_layer_argument(layer_digests))))
    /\ raised' = TRUE
    /\ UNCHANGED <<inputs, preflight_error, pc, layer_index, visited, stack, layer_digests, hash_digest,
                   image_digest, dep_dir, tmp, layer_dir, config_files,
                   manifest, image_tar, staged, tar_vars>>

\* ---------------------------------- assemble, line 174 and _create_manifest
_create_manifest ==
    /\ running("manifest")
    /\ manifest' = Some(Whole(manifest_body(layer_digests, image_digest[1])))
    /\ pc' = "pack"
    /\ UNCHANGED <<inputs, preflight_error, raised, layer_index, visited, stack, layer_digests, hash_digest,
                   image_digest, dep_dir, tmp, layer_dir, config_files,
                   repositories, image_tar, staged, tar_vars>>

_create_manifest_fails ==
    /\ running("manifest")
    /\ manifest' = Some(Partial(manifest_body(layer_digests, image_digest[1])))
    /\ raised' = TRUE
    /\ UNCHANGED <<inputs, preflight_error, pc, layer_index, visited, stack, layer_digests, hash_digest,
                   image_digest, dep_dir, tmp, layer_dir, config_files,
                   repositories, image_tar, staged, tar_vars>>

\* ------------------------------------------- _pack_image, lines 219-231
\* the entries of layers/, by kind: digest-named directories, digest-named
\* config files, and the entries with fixed names
listdir_layer_dir ==
    [layers |-> {d.name : d \in layer_dir},
     configs |-> {c.name : c \in config_files},
     files |-> (IF repositories /= None THEN {"repositories"} ELSE {}) \cup
               (IF manifest /= None THEN {"manifest.json"} ELSE {}) \cup
               (IF tmp.kind /= "none" THEN {"tmp"} ELSE {})]

NoEntries == [layers |-> {}, configs |-> {}, files |-> {}]

\* lines 227-229: image.tar is created
_pack_image_open ==
    /\ running("pack")
    /\ image_tar' = Some(Partial(NoEntries))
    /\ pc' = "pack_add"
    /\ UNCHANGED <<inputs, preflight_error, raised, layer_index, visited, stack, layer_digests, hash_digest,
                   image_digest, dep_dir, tmp, layer_dir, config_files,
                   repositories, manifest, staged, tar_vars>>

\* lines 230-231 and the end of the with block: every entry is added under its
\* base name, the archive is closed, and assemble returns '/image'
_pack_image_add ==
    /\ running("pack_add")
    /\ image_tar' = Some(Whole(listdir_layer_dir))
    /\ pc' = "done"
    /\ UNCHANGED <<inputs, preflight_error, raised, layer_index, visited, stack, layer_digests, hash_digest,
                   image_digest, dep_dir, tmp, layer_dir, config_files,
                   repositories, manifest, staged, tar_vars>>

\* lines 230-231 failing while the entries are added: a truncated image.tar stays
_pack_image_add_fails ==
    /\ running("pack_add")
    /\ image_tar' = Some(Partial(listdir_layer_dir))
    /\ raised' = TRUE
    /\ UNCHANGED <<inputs, preflight_error, pc, layer_index, visited, stack, layer_digests, hash_digest,
                   image_digest, dep_dir, tmp, layer_dir, config_files,
                   repositories, manifest, staged, tar_vars>>

\* ------------------------------------------------------------------ errors
\* the statements that call the collaborator or the operating system
io_statements ==
    {"assemble", "create_layer", "layer_tar", "layer_hash", "layer_move", "layer_version",
     "layer_json", "image_config", "config_hash", "config_move", "repositories",
     "manifest", "pack", "pack_add"}

\* the call at pc raises before it has changed anything; the exception leaves
\* assemble, which catches nothing
raise ==
    /\ ~raised
    /\ \/ pc \in io_statements
       \/ /\ pc = "stage_layer"                     \* line 217
          /\ stack /= <<>>
          /\ walked_the_dependencies(Top)
    /\ raised' = TRUE
    /\ UNCHANGED <<inputs, preflight_error, pc, layer_index, visited, stack, layer_digests, hash_digest,
                   image_digest, dep_dir, tmp, layer_dir, config_files,
                   repositories, manifest, image_tar, staged, tar_vars>>

Next ==
    \/ assemble_makedirs
    \/ _stage_layers_next
    \/ _stage_layer_enter
    \/ _stage_layer_recurse
    \/ _stage_layer_artifacts
    \/ _stage_layers_yield
    \/ _stage_layers_done
    \/ _create_layer_makedirs
    \/ _create_layer_tar
    \/ _create_layer_tar_fails
    \/ _create_layer_hash
    \/ _create_layer_move
    \/ _create_layer_version
    \/ _create_layer_version_fails
    \/ _create_layer_json
    \/ _create_layer_json_fails
    \/ _create_image_config_save
    \/ _create_image_config_save_fails
    \/ _create_image_config_hash
    \/ _create_image_config_move
    \/ _create_repositories_file
    \/ _create_repositories_file_fails
    \/ _create_manifest
    \/ _create_manifest_fails
    \/ _pack_image_open
    \/ _pack_image_add
    \/ _pack_image_add_fails
    \/ raise

Spec == Init /\ [][Next]_vars

\* ------------------------------------------ assemble on any dependency graph
\* every graph of runtime dependencies on the Elements, those with a cycle too
\* (BuildStream refuses to load a project with a circular dependency)
AnyGraphs ==
    {g \in [Elements -> DistinctSeqs(Elements, Cardinality(Elements) - 1)] :
        \A e \in Elements : e \notin Range(g[e])}

InitAnyGraph ==
    /\ rdeps \in {[i \in 1..Cardinality(Elements) |-> g[i]] : g \in AnyGraphs}
    /\ build_deps \in DistinctSeqs(Elements, MaxBuildDeps) \ {<<>>}
    /\ artifact = [e \in Elements |-> {[name |-> "x", data |-> e]}]
    /\ image_names_node = <<r1_t1>>
    /\ image_names = dict(repo_tag_pairs(image_names_node), <<>>)
    /\ exposed_ports_node = <<>>
    /\ exposed_ports = ports_dict(exposed_ports_node, <<>>)
    /\ preflight_error = None
    /\ pc = "assemble"
    /\ raised = FALSE
    /\ layer_index = 0
    /\ visited = {}
    /\ stack = <<>>
    /\ layer_digests = <<>>
    /\ hash_digest = None
    /\ image_digest = None
    /\ dep_dir = <<>>
    /\ tmp = NoTmp
    /\ layer_dir = {}
    /\ config_files = {}
    /\ repositories = None
    /\ manifest = None
    /\ image_tar = None
    /\ staged = <<>>
    /\ changeset_a = <<>>
    /\ changeset_b = <<>>
    /\ digest_a = None
    /\ digest_b = None
    /\ element_a = self
    /\ element_b = self
    /\ json_a = None
    /\ json_b = None

\* assemble is sequential code: it takes its next step as long as it has one
SpecAnyGraph == InitAnyGraph /\ [][Next]_vars /\ WF_vars(Next)

\* -------------------------------------- the element from configure to assemble
\* BuildStream configures the element, calls preflight when the project is
\* loaded, and calls assemble only for an element whose preflight raised nothing
assemble_vars == <<layer_index, visited, stack, layer_digests, hash_digest, image_digest,
                   dep_dir, tmp, layer_dir, config_files, repositories, manifest,
                   image_tar, staged>>

\* the 'exposed-ports' lists: "0", "80", "65535", "65536", "-1", "80/tcp", "80/udp",
\* "65535/udp", "0/tcp", "80/sctp", "65536/tcp", "-1/udp", "65536/sctp", "http",
\* "80/", "80/tcp/udp", no port, and lists of two
ExposedPortsNodes ==
    {<<>>,
     << <<"0">> >>,
     << <<"8", "0">> >>,
     << <<"6", "5", "5", "3", "5">> >>,
     << <<"6", "5", "5", "3", "6">> >>,
     << <<"-", "1">> >>,
     << <<"8", "0", "/", "t", "c", "p">> >>,
     << <<"8", "0", "/", "u", "d", "p">> >>,
     << <<"6", "5", "5", "3", "5", "/", "u", "d", "p">> >>,
     << <<"0", "/", "t", "c", "p">> >>,
     << <<"8", "0", "/", "s", "c", "t", "p">> >>,
     << <<"6", "5", "5", "3", "6", "/", "t", "c", "p">> >>,
     << <<"-", "1", "/", "u", "d", "p">> >>,
     << <<"6", "5", "5", "3", "6", "/", "s", "c", "t", "p">> >>,
     << <<"h", "t", "t", "p">> >>,
     << <<"8", "0", "/">> >>,
     << <<"8", "0", "/", "t", "c", "p", "/", "u", "d", "p">> >>,
     << <<"8", "0">>, <<"8", "0">> >>,
     << <<"0">>, <<"6", "5", "5", "3", "5">> >>,
     << <<"8", "0", "/", "t", "c", "p">>, <<"6", "5", "5", "3", "6">> >>,
     << <<"6", "5", "5", "3", "6">>, <<"8", "0", "/", "s", "c", "t", "p">> >>,
     << <<"8", "0", "/", "s", "c", "t", "p">>, <<"6", "5", "5", "3", "6">> >>}

\* the image names "r1:t2" and "R1:t1"
r1_t2 == <<"r", "1", ":", "t", "2">>
R1_t1 == <<"R", "1", ":", "t", "1">>

ConfiguredImageNames == {<<r1_t1>>, <<r1_t1, r2_t2>>, <<r1_t1, r1_t2>>, <<R1_t1>>}

InitElement ==
    /\ rdeps \in RunGraphs(1)
    /\ build_deps \in DistinctSeqs(Elements, MaxBuildDeps)
    /\ artifact = [e \in Elements |-> {[name |-> "x", data |-> e]}]
    /\ image_names_node \in {names \in ConfiguredImageNames : configurable(names)}
    /\ image_names = dict(repo_tag_pairs(image_names_node), <<>>)
    /\ exposed_ports_node \in ExposedPortsNodes
    /\ exposed_ports = ports_dict(exposed_ports_node, <<>>)
    /\ preflight_error = None
    /\ pc = "preflight"
    /\ raised = FALSE
    /\ layer_index = 0
    /\ visited = {}
    /\ stack = <<>>
    /\ layer_digests = <<>>
    /\ hash_digest = None
    /\ image_digest = None
    /\ dep_dir = <<>>
    /\ tmp = NoTmp
    /\ layer_dir = {}
    /\ config_files = {}
    /\ repositories = None
    /\ manifest = None
    /\ image_tar = None
    /\ staged = <<>>
    /\ changeset_a = <<>>
    /\ changeset_b = <<>>
    /\ digest_a = None
    /\ digest_b = None
    /\ element_a = self
    /\ element_b = self
    /\ json_a = None
    /\ json_b = None

\* preflight, lines 101-113: the loop over the keys of self._exposed_ports
preflight_exposed_ports ==
    /\ running("preflight")
    /\ LET error == first_error([i \in 1..Len(exposed_ports) |-> check_port(exposed_ports[i])])
       IN IF error /= None
          THEN /\ preflight_error' = error
               /\ raised' = TRUE
               /\ UNCHANGED pc
          ELSE /\ pc' = "preflight_build_deps"
               /\ UNCHANGED <<preflight_error, raised>>
    /\ UNCHANGED <<inputs, assemble_vars, tar_vars>>

\* preflight, lines 115-121
preflight_build_deps ==
    /\ running("preflight_build_deps")
    /\ IF too_few_build_dependencies(Len(build_deps))
       THEN /\ preflight_error' = Some(ElementError("docker-bdepend-wrong-count"))
            /\ raised' = TRUE
            /\ UNCHANGED pc
       ELSE /\ pc' = "preflight_image_names"
            /\ UNCHANGED <<preflight_error, raised>>
    /\ UNCHANGED <<inputs, assemble_vars, tar_vars>>

\* preflight, lines 123-130: the loop over the keys of self._image_names; the
\* reason given is that of line 121
preflight_image_names ==
    /\ running("preflight_image_names")
    /\ IF \E i \in 1..Len(image_names) : ~repository_syntax(image_names[i].repo)
       THEN /\ preflight_error' = Some(ElementError("docker-bdepend-wrong-count"))
            /\ raised' = TRUE
            /\ UNCHANGED pc
       ELSE /\ pc' = "assemble"
            /\ UNCHANGED <<preflight_error, raised>>
    /\ UNCHANGED <<inputs, assemble_vars, tar_vars>>

NextElement ==
    \/ preflight_exposed_ports
    \/ preflight_build_deps
    \/ preflight_image_names
    \/ Next

SpecElement == InitElement /\ [][NextElement]_vars

\* ------------------------------------------- the archive builder on its own
\* _create_layer, lines 333-339, as a function of what os.listdir returns
layer_digest_of(listing) == _hash_digest(tar_members(listing))

\* the directories that can be staged: at most one entry per path
ChangesetDirs ==
    {dir \in SUBSET [name : Paths, data : {1}, stat : Stats] :
        \A f, g \in dir : f.name = g.name => f = g}

same_files(dir_a, dir_b) ==
    {[name |-> f.name, data |-> f.data] : f \in dir_a} =
    {[name |-> f.name, data |-> f.data] : f \in dir_b}

\* the elements of two builds: they differ in the time configure ran at and in
\* their run-configuration, or in neither
BuildingElements ==
    {[created |-> c, exposed_ports |-> p] :
        c \in {created, "created later"}, p \in {<<>>, << <<"8", "0">> >>}}

InitTar ==
    /\ \E dir_a, dir_b \in ChangesetDirs :
          /\ same_files(dir_a, dir_b)
          /\ changeset_a \in Listings(dir_a)
          /\ changeset_b \in Listings(dir_b)
    /\ digest_a = None
    /\ digest_b = None
    /\ element_a = [created |-> created, exposed_ports |-> <<>>]
    /\ element_b \in BuildingElements
    /\ json_a = None
    /\ json_b = None
    /\ rdeps = [e \in Elements |-> <<>>]
    /\ build_deps = <<1>>
    /\ artifact = [e \in Elements |-> {}]
    /\ image_names_node = <<>>
    /\ image_names = <<>>
    /\ exposed_ports_node = <<>>
    /\ exposed_ports = <<>>
    /\ preflight_error = None
    /\ pc = "assemble"
    /\ raised = FALSE
    /\ layer_index = 0
    /\ visited = {}
    /\ stack = <<>>
    /\ layer_digests = <<>>
    /\ hash_digest = None
    /\ image_digest = None
    /\ dep_dir = <<>>
    /\ tmp = NoTmp
    /\ layer_dir = {}
    /\ config_files = {}
    /\ repositories = None
    /\ manifest = None
    /\ image_tar = None
    /\ staged = <<>>

main_vars == <<inputs, preflight_error, pc, raised, layer_index, visited, stack, layer_digests,
               hash_digest, image_digest, dep_dir, tmp, layer_dir,
               config_files, repositories, manifest, image_tar, staged>>

\* _create_layer, lines 333-365, in the build of element_a and in that of element_b
create_layer_a ==
    /\ digest_a = None
    /\ digest_a' = Some(layer_digest_of(changeset_a))
    /\ json_a' = Some(v1_json_of(element_a, layer_digest_of(changeset_a)))
    /\ UNCHANGED <<main_vars, changeset_a, changeset_b, digest_b, element_a, element_b, json_b>>

create_layer_b ==
    /\ digest_b = None
    /\ digest_b' = Some(layer_digest_of(changeset_b))
    /\ json_b' = Some(v1_json_of(element_b, layer_digest_of(changeset_b)))
    /\ UNCHANGED <<main_vars, changeset_a, changeset_b, digest_a, element_a, element_b, json_a>>

NextTar == create_layer_a \/ create_layer_b

SpecTar == InitTar /\ [][NextTar]_vars

\* ================================================================== claims
\* the Elements reachable from the Elements of S over runtime edges, S included
RECURSIVE Reach(_)
Reach(S) ==
    LET T == S \cup UNION {Range(rdeps[e]) : e \in S}
    IN IF T = S THEN S ELSE Reach(T)

N == Len(build_deps)

\* the first declared build dependency that reaches e
owner(e) == CHOOSE i \in 1..N :
                /\ e \in Reach({build_deps[i]})
                /\ \A j \in 1..(i - 1) : e \notin Reach({build_deps[j]})

\* the stage_dependency_artifacts calls made for e
calls(e) == {k \in 1..Len(staged) : staged[k][1] = e}

\* _stage_layers has run over all build dependencies
staging_finished ==
    /\ layer_index = N
    /\ pc = "stage_layer" => stack = <<>>

\* layer i's staging directory has received all it gets
layer_staged(i) ==
    \/ i < layer_index
    \/ i = layer_index /\ (pc = "stage_layer" => stack = <<>>)

files_of(dir) == {[name |-> f.name, data |-> f.data] : f \in dir}

\* the digests an archive of layer i's staging directory can have
digests_of_layer(i) == {[sha256 |-> tar_members(l)] : l \in Listings(dep_dir[i])}

\* C1: once _stage_layers has run over all build dependencies, every Element
\* reachable from a build dependency over runtime edges has had its diff staged
\* exactly once, into the layer of the first declared build dependency that
\* reaches it; at no time has an Element been staged twice.
C1_StagedOnceInFirstLayer ==
    /\ \A e \in Elements : Cardinality(calls(e)) <= 1
    /\ staging_finished =>
          \A e \in Reach(Range(build_deps)) :
              /\ Cardinality(calls(e)) = 1
              /\ \A k \in calls(e) : staged[k][2] = owner(e)

\* a diamond: two build dependencies share a runtime dependency, all staged
C1_Witness ==
    /\ staging_finished
    /\ N = 2
    /\ \E e \in Elements \ Range(build_deps) :
          /\ e \in Reach({build_deps[1]}) \cap Reach({build_deps[2]})
          /\ calls(e) /= {}

\* C2: the manifest's Layers and the image config's diff_ids both have one entry
\* per declared build dependency, and the i-th entry of each is built from the
\* digest of the layer archived from the i-th build dependency's staging directory.
C2_LayersInDeclarationOrder ==
    /\ \A c \in config_files :
          LET ids == c.file.body.rootfs.diff_ids
          IN /\ Len(ids) = N
             /\ \A i \in 1..N : \E d \in digests_of_layer(i) :
                   /\ ids[i] = [prefix |-> "sha256:", digest |-> d]
                   /\ \E dir \in layer_dir : dir.name = d
    /\ (manifest /= None /\ manifest[1].whole) =>
          LET layers == manifest[1].body.Layers
          IN /\ Len(layers) = N
             /\ \A c \in config_files : \A i \in 1..N :
                   /\ layers[i].path = "/layer.tar"
                   /\ c.file.body.rootfs.diff_ids[i].digest = layers[i].digest
             /\ \A i \in 1..N : \E d \in digests_of_layer(i) :
                   /\ layers[i] = [digest |-> d, path |-> "/layer.tar"]
                   /\ \E dir \in layer_dir : dir.name = d
             /\ config_files /= {}

\* a finished build of two layers
C2_Witness ==
    /\ pc = "done"
    /\ N = 2
    /\ manifest[1].body.Layers[1] /= manifest[1].body.Layers[2]

\* C3: in the tree that is packed, every layer directory is named by the SHA-256
\* digest of the layer.tar it holds, the image config file is named <d>.json with
\* d the digest of its own content, and the manifest's Config names that file.
C3_NamesAreContentDigests ==
    pc \in {"pack", "pack_add", "done"} =>
        /\ \A d \in layer_dir :
              /\ d.tar /= None
              /\ d.name = [sha256 |-> d.tar[1].body]
        /\ \E c \in config_files :
              /\ config_files = {c}
              /\ c.name = [digest |-> [sha256 |-> c.file.body], ext |-> ".json"]
              /\ manifest[1].body.Config = c.name

C3_Witness ==
    /\ pc = "done"
    /\ Cardinality(layer_dir) = 2
    /\ \E d \in layer_dir : d.tar[1].body /= <<>>

\* C4 (as claimed): the repositories file maps every configured repository r with
\* tag t to "t:<d>", d being the digest of the layer of the last declared build
\* dependency.
C4_RepositoriesNameLastLayer ==
    (repositories /= None /\ repositories[1].whole) =>
        \A i \in 1..Len(image_names) : \E entry \in Range(repositories[1].body) :
            /\ entry.name = image_names[i].repo
            /\ entry.value.tag = image_names[i].tag
            /\ entry.value.digest \in digests_of_layer(N)

\* C5 (as claimed): _create_layer on two staged directories that hold the same
\* paths with the same bytes, and differ in modification time, numeric owner or
\* group id, owner or group name or listing order, yields the same layer digest.
C5_SameFilesSameDigest ==
    (digest_a /= None /\ digest_b /= None) => digest_a = digest_b

\* C12 (as claimed): two builds, whatever their run-configuration and the time
\* they were configured at, give a layer the same digest when the file tree staged
\* for it is the same in both (the same entries with the same bytes, owners and
\* times).
C12_SameTreeSameDigest ==
    (digest_a /= None /\ digest_b /= None /\ Range(changeset_a) = Range(changeset_b)) =>
        digest_a = digest_b

\* C12, for two builds in which os.listdir also returns the entries in the same
\* order: the digests are equal although the json files of the layers differ
C12_SameListingSameDigest ==
    (digest_a /= None /\ digest_b /= None /\ changeset_a = changeset_b) =>
        /\ digest_a = digest_b
        /\ json_a = json_b <=> element_a = element_b

\* a layer directory holds layer.tar, VERSION and json, each written to its end
fully_formed(d) ==
    /\ d.tar /= None /\ d.tar[1].whole
    /\ d.VERSION /= None /\ d.VERSION[1].whole
    /\ d.json /= None /\ d.json[1].whole

\* C6 (as claimed): every _create_layer call completes and contributes its own
\* layer directory: the rename onto the digest-named directory always finds the
\* name free, and a finished build holds one layer directory per build dependency.
C6_OneLayerDirectoryPerBuildDep ==
    /\ running("layer_move") => \A d \in layer_dir : d.name /= layer_directory(hash_digest[1])
    /\ pc = "done" => Cardinality(layer_dir) = N

\* C7 (as claimed): in every reachable state a path named by a content digest is
\* absent or fully formed: a layer directory holds layer.tar, VERSION and json,
\* and <image-digest>.json holds its whole content.
C7_DigestNamedPathsFullyFormed ==
    /\ \A d \in layer_dir : fully_formed(d)
    /\ \A c \in config_files : c.file.whole

\* the calls that wrote path p into layer i
writers(i, p) ==
    {k \in 1..Len(staged) : staged[k][2] = i /\ p \in Names(artifact[staged[k][1]])}

last_writer(i, p) ==
    staged[CHOOSE k \in writers(i, p) : \A j \in writers(i, p) : j <= k][1]

\* C8: once a layer is staged, and when it is archived, every path of the layer
\* holds the content of the last Element of the traversal order that provides it;
\* a build dependency staged into its own layer comes last, so its content wins
\* over that of its runtime dependencies.
C8_LastWriterWins ==
    /\ \A i \in 1..Len(dep_dir) : layer_staged(i) =>
          /\ \A p \in Paths :
                IF writers(i, p) = {}
                THEN p \notin Names(dep_dir[i])
                ELSE \E f \in dep_dir[i] :
                        /\ f.name = p
                        /\ [name |-> f.name, data |-> f.data] \in artifact[last_writer(i, p)]
          /\ \A f \in artifact[build_deps[i]] :
                (\E k \in calls(build_deps[i]) : staged[k][2] = i) => f \in files_of(dep_dir[i])
    /\ (running("layer_hash") /\ tmp.tar /= None) =>
          files_of(Range(tmp.tar[1].body)) = files_of(dep_dir[layer_index])

\* a build dependency and one of its runtime dependencies provide the same path
\* and the layer holding both is archived
C8_Witness ==
    /\ running("layer_hash")
    /\ \E p \in Paths :
          /\ Cardinality(writers(layer_index, p)) = 2
          /\ last_writer(layer_index, p) = build_deps[layer_index]
          /\ \E m \in Range(tmp.tar[1].body) :
                m.name = p /\ m.data = build_deps[layer_index]

\* C9: the image config is serialized and hashed only after the digest of every
\* layer is known, manifest.json is written only after the config has its final
\* name, and image.tar is begun only after config, repositories and manifest are
\* written.
C9_OrderOfImageFiles ==
    /\ (tmp.kind = "file" \/ image_digest /= None \/ config_files /= {}) =>
          /\ Len(layer_digests) = N
          /\ layer_index = N
          /\ \A i \in 1..N : \E d \in layer_dir : d.name = layer_digests[i]
    /\ manifest /= None =>
          /\ image_digest /= None
          /\ tmp.kind = "none"
          /\ \E c \in config_files : c.name = manifest[1].body.Config /\ c.file.whole
    /\ image_tar /= None =>
          /\ config_files /= {}
          /\ repositories /= None /\ repositories[1].whole
          /\ manifest /= None /\ manifest[1].whole

C9_Witness ==
    /\ pc = "done"
    /\ N = 2
    /\ image_tar /= None /\ image_tar[1].whole

\* C10 (as claimed): if a step of assemble fails, image.tar does not exist in the
\* image area and nothing is visible under a content-addressed name that is not
\* fully formed.
C10_FailureLeavesNoOutput ==
    raised =>
        /\ image_tar = None
        /\ \A d \in layer_dir : fully_formed(d)
        /\ \A c \in config_files : c.file.whole

\* C10, the part about the output archive alone
C10_FailureLeavesNoImageTar == raised => image_tar = None

\* ------------------------------------------------------ preflight's claims
PreflightSteps == {"preflight", "preflight_build_deps", "preflight_image_names"}

\* str(n): the decimal text of an integer
RECURSIVE digits_of(_)
digits_of(n) ==
    IF n < 10 THEN <<Digits[n + 1]>>
    ELSE Append(digits_of(n \div 10), Digits[(n % 10) + 1])

str(n) == IF n < 0 THEN <<"-">> \o digits_of(0 - n) ELSE digits_of(n)

\* the port numbers and protocols the entries are built from; no protocol is <<>>
PortNumbers == {0 - 1, 0, 80, 65535, 65536}
tcp == <<"t", "c", "p">>
udp == <<"u", "d", "p">>
OtherProtocols == {<<"s", "c", "t", "p">>, <<"t", "c", "p", "/", "u", "d", "p">>}

\* the entry "p" or "p/proto"
port_entry(p, proto) == IF proto = <<>> THEN str(p) ELSE str(p) \o <<"/">> \o proto

\* the entry is "p" or "p/proto" for some port number and some protocol
well_formed(entry) ==
    \E p \in PortNumbers, proto \in {<<>>, tcp, udp} \cup OtherProtocols :
        entry = port_entry(p, proto)

\* the entries preflight is to accept
acceptable(entry) ==
    \E p \in PortNumbers, proto \in {<<>>, tcp, udp} :
        /\ 0 <= p /\ p <= 65535
        /\ entry = port_entry(p, proto)

\* the reason preflight is to give for an entry it is not to accept
reason_for(entry) ==
    IF \E p \in PortNumbers, proto \in OtherProtocols : entry = port_entry(p, proto)
    THEN "docker-invalid-port-option"
    ELSE "docker-port-out-out-of-range"

\* the repositories of the configured image names that are well formed
ValidRepositories == {<<"r", "1">>, <<"r", "2">>}

valid_configuration ==
    /\ \A i \in 1..Len(exposed_ports_node) : acceptable(exposed_ports_node[i])
    /\ \A i \in 1..Len(image_names_node) :
          \E r \in ValidRepositories :
              SubSeq(image_names_node[i], 1, Len(r) + 1) = r \o <<":">>

nothing_packaged ==
    /\ dep_dir = <<>> /\ staged = <<>>
    /\ tmp = NoTmp /\ layer_dir = {} /\ config_files = {}
    /\ repositories = None /\ manifest = None /\ image_tar = None

\* C11: an element without a direct build dependency never gets past the
\* build-dependency check of preflight, which raises the element error
\* docker-bdepend-wrong-count, so assemble is entered only with one build
\* dependency or more; with a build dependency and a valid configuration
\* preflight raises nothing.
C11_NoBuildDependencyIsFatal ==
    /\ N = 0 =>
          /\ pc \in {"preflight", "preflight_build_deps"}
          /\ (pc = "preflight_build_deps" /\ raised) =>
                preflight_error = Some([type |-> "ElementError",
                                        reason |-> "docker-bdepend-wrong-count"])
    /\ pc \notin PreflightSteps => N >= 1
    /\ (N >= 1 /\ valid_configuration) => preflight_error = None

\* preflight has raised on an element with valid ports and no build dependency
C11_Witness ==
    /\ N = 0
    /\ raised
    /\ pc = "preflight_build_deps"
    /\ preflight_error /= None

\* the first entry of the configured list that preflight is not to accept
first_unacceptable ==
    exposed_ports_node[CHOOSE i \in 1..Len(exposed_ports_node) :
                          /\ ~acceptable(exposed_ports_node[i])
                          /\ \A j \in 1..(i - 1) : acceptable(exposed_ports_node[j])]

\* the loop over the exposed ports has run
ports_checked == pc /= "preflight" \/ raised

\* C16: for a list of entries "p" or "p/proto", the port loop of preflight raises
\* nothing exactly when every entry has 0 <= p <= 65535 and no protocol or tcp or
\* udp; else it raises for the first other entry, docker-invalid-port-option for
\* another protocol and docker-port-out-out-of-range for p < 0 or p > 65535;
\* nothing is packaged before preflight has passed.
C16_PortsValidatedBeforePackaging ==
    /\ (ports_checked /\ \A i \in 1..Len(exposed_ports_node) : well_formed(exposed_ports_node[i])) =>
          IF \A i \in 1..Len(exposed_ports_node) : acceptable(exposed_ports_node[i])
          THEN ~(pc = "preflight" /\ raised)
          ELSE /\ pc = "preflight" /\ raised
               /\ preflight_error = Some([type |-> "ElementError",
                                          reason |-> reason_for(first_unacceptable)])
    /\ pc \in PreflightSteps => nothing_packaged
    /\ preflight_error /= None => pc \in PreflightSteps /\ raised

\* the ports 0 and 65535 have passed the loop
C16_Witness ==
    /\ pc = "preflight_build_deps"
    /\ exposed_ports_node = <<port_entry(0, <<>>), port_entry(65535, <<>>)>>

\* port 65536 with a protocol that is accepted has been refused
C16_WitnessRefused ==
    /\ pc = "preflight" /\ raised
    /\ exposed_ports_node = <<port_entry(65536, tcp)>>
    /\ preflight_error /= None

\* the image name is "<repository>:..." for the repository given
of_repository(image_name, repository) ==
    /\ ~contains(repository, ":")
    /\ SubSeq(image_name, 1, Len(repository) + 1) = repository \o <<":">>

names_are_published(names) ==
    /\ (manifest /= None /\ manifest[1].whole) =>
          \A i \in 1..Len(names) : names[i] \in Range(manifest[1].body.RepoTags)
    /\ (repositories /= None /\ repositories[1].whole) =>
          \A i \in 1..Len(names) : \E entry \in Range(repositories[1].body) :
              of_repository(names[i], entry.name)

\* C13 (as claimed): the RepoTags of the manifest written hold every configured
\* image name "repo:tag", also when two of them name the same repository with
\* different tags, and the repositories file written has an entry for the
\* repository of every configured image name.
C13_RepoTagsNameEveryImage == names_are_published(image_names_node)

\* C13, for image names of different repositories
C13_OneTagPerRepository ==
    (\A i, j \in 1..Len(image_names_node) :
        \A entry \in Range(image_names) :
            (of_repository(image_names_node[i], entry.repo)
             /\ of_repository(image_names_node[j], entry.repo)) => i = j)
    => names_are_published(image_names_node)

\* ------------------------------------------------ the order within a layer
\* the Elements whose diff was staged into layer i, in the order of the calls
layer_sequence(i) ==
    LET into == SelectSeq(staged, LAMBDA call : call[2] = i)
    IN [k \in 1..Len(into) |-> into[k][1]]

\* the Elements the layers below layer i have claimed
claimed_before(i) == Reach({build_deps[j] : j \in 1..(i - 1)})

unclaimed(i, e) == e \notin claimed_before(i)

\* position of e in the sequence
index_of(seq, e) == CHOOSE k \in 1..Len(seq) : seq[k] = e

\* the sequence holds each Element of S once, every Element after the Elements
\* it depends on
post_order_of(seq, S) ==
    /\ Range(seq) = S
    /\ Len(seq) = Cardinality(S)
    /\ \A e \in S : \A d \in (Reach({e}) \cap S) \ {e} : index_of(seq, d) < index_of(seq, e)

\* C14 (as claimed): for every declared build dependency D, what is staged into
\* D's directory is the not yet claimed runtime dependencies of D, each after
\* its own, and D's own diff last.
C14_OwnDiffLastInEveryLayer ==
    \A i \in 1..Len(dep_dir) : layer_staged(i) =>
        LET seq == layer_sequence(i)
        IN /\ post_order_of(seq, (Reach({build_deps[i]}) \ claimed_before(i)) \cup {build_deps[i]})
           /\ seq /= <<>>
           /\ seq[Len(seq)] = build_deps[i]

\* C14 (amended): for a build dependency D that no earlier layer has claimed, what
\* is staged into D's directory is the not yet claimed Elements of
\* D.dependencies(Scope.RUN) in that order: every one after its own runtime
\* dependencies, D's own diff last; for a build dependency that an earlier layer
\* has claimed, nothing is staged into its directory.
C14_PostOrderOfTheUnclaimed ==
    \A i \in 1..Len(dep_dir) : layer_staged(i) =>
        LET seq == layer_sequence(i)
            D == build_deps[i]
        IN IF unclaimed(i, D)
           THEN /\ seq = SelectSeq(dependencies(D), LAMBDA e : unclaimed(i, e))
                /\ post_order_of(seq, Reach({D}) \ claimed_before(i))
                /\ seq[Len(seq)] = D
           ELSE seq = <<>> /\ dep_dir[i] = {}

\* two layers are staged: the first of two Elements or more, the second of its
\* build dependency without a runtime dependency the first layer has claimed
C14_Witness ==
    /\ staging_finished
    /\ N = 2
    /\ Len(layer_sequence(1)) >= 2
    /\ layer_sequence(2) = <<build_deps[2]>>
    /\ Reach({build_deps[2]}) \cap claimed_before(2) /= {}

\* ------------------------------------------------------- the packed tree
\* what the claim has in layers/ when it is packed
expected_tree ==
    [layers |-> {layer_digests[i] : i \in 1..N},
     configs |-> {[digest |-> image_digest[1], ext |-> ".json"]},
     files |-> {"manifest.json", "repositories"}]

\* C15: while _pack_image runs and after it, layers/ holds one digest-named
\* directory per build dependency, the one <image-digest>.json, manifest.json and
\* repositories, and nothing at the scratch path tmp; image.tar, once written,
\* has exactly these entries as its members, under their base names.
C15_PackedTreeHasNoScratch ==
    /\ pc \in {"pack", "pack_add", "done"} =>
          /\ Len(layer_digests) = N
          /\ Cardinality({d.name : d \in layer_dir}) = N
          /\ {d.name : d \in layer_dir} = expected_tree.layers
          /\ {c.name : c \in config_files} = expected_tree.configs
          /\ manifest /= None /\ repositories /= None
          /\ tmp = NoTmp
    /\ image_tar /= None =>
          /\ "tmp" \notin image_tar[1].body.files
          /\ image_tar[1].whole => image_tar[1].body = expected_tree

\* image.tar of a build of two layers is written
C15_Witness ==
    /\ pc = "done"
    /\ image_tar /= None /\ image_tar[1].whole
    /\ Cardinality(image_tar[1].body.layers) = 2
    /\ image_tar[1].body.files = {"manifest.json", "repositories"}

\* ------------------------------------------------ the end of the traversal
\* the calls of _stage_layer that are past the test of line 211
entered == {k \in 1..Len(stack) : stack[k].next >= 1}

\* C17: on every graph of runtime dependencies, with shared dependencies and
\* with cycles, no Element is in two running calls of _stage_layer past the test
\* of visited, the depth of the recursion is bounded by the Elements visited, no
\* Element has its diff staged twice, visited only grows, and every traversal
\* begun for a layer comes to its end (or an exception leaves assemble).
C17_TraversalTerminates ==
    /\ [](/\ \A j, k \in entered : stack[j].element = stack[k].element => j = k
          /\ \A k \in entered : stack[k].element \in visited
          /\ Len(stack) <= Cardinality(visited) + 1
          /\ \A e \in Elements : Cardinality(calls(e)) <= 1)
    /\ [][visited \subseteq visited']_vars
    /\ (pc = "stage_layer" /\ ~raised) ~> (raised \/ pc = "create_layer")

\* the traversals of a build are over on a graph with a cycle through two
\* Elements that both depend on the third
C17_Witness ==
    /\ staging_finished /\ pc = "create_layer"
    /\ visited = Elements
    /\ \E a, b, c \in Elements :
          /\ a /= b /\ c \notin {a, b}
          /\ a \in Range(rdeps[b]) /\ b \in Range(rdeps[a])
          /\ c \in Range(rdeps[a]) /\ c \in Range(rdeps[b])
====
